---- MODULE Spec2Model ----
(***************************************************************************)
(* The screening and aggregation engine of the StockScreener app          *)
(* (services/api: class ApiService).                                       *)
(*                                                                         *)
(* JavaScript values are modelled as records.  A primitive carries a type  *)
(* tag t: undefined, NaN, a number, a string, a numeric string (the form   *)
(* in which the upstream sends its numbers).  An object is a record of its *)
(* JavaScript fields; reading a field that is not there gives undefined.   *)
(*                                                                         *)
(* Units.  Prices are fixed-point integers counting 1/200 of a dollar, so  *)
(* that the mean of 50, 100 or 200 whole-dollar closes is exact.  Percent  *)
(* change, P/E and growth rates are whole numbers; a market cap counts     *)
(* millions of dollars; a score counts tenths of a point.                  *)
(***************************************************************************)
EXTENDS Integers, Sequences, FiniteSets, TLC

VARIABLES
    \* ---- one getStockDetails call (specification SpecDetails) ----
    dpc,          \* position of the call: "idle", "waiting", "returned"
    up,           \* the upstream answer each request of the call received
    sub,          \* settled ApiResponse of each sub-call, or Pending
    detailsOut,   \* what getStockDetails resolved to, or Pending
    dsym,         \* the symbol the call was made for
    requests,     \* how many requests the call has sent to each endpoint
    dorder,       \* the sub-calls in the order in which they settled
    \* ---- one screenStocks call (specification Spec) ----
    pc,           \* position of the call: "idle", "awaiting", "done"
    issued,       \* symbols for which getStockDetails has been called
    settled,      \* per universe index: the settled promise, or Pending
    upstream,     \* per universe index: the upstream answers its call received
    arrival,      \* universe indices in the order their promises settled
    screenOut,    \* what screenStocks resolved to, or Pending
    \* ---- one getChartData call (specification SpecChart) ----
    cpc,          \* position of the call: "idle", "waiting", "resumed", "returned"
    chartSym,     \* the symbol the call was made for
    chartUp,      \* the upstream answer of the call's time-series request
    chartSeries,  \* what getStockTimeSeries resolved to, or Pending
    chartOut,     \* the settled promise of getChartData, or Pending
    \* ---- one calculateSMA call (specification SpecSMA) ----
    spc,          \* position of the call: "none", "ready", "done"
    smaGiven,     \* the series as it was when the call was made
    smaPrices,    \* the array passed as prices
    smaPeriod,    \* the period passed
    smaOut,       \* the array returned, or Pending
    \* ---- one calculateScore call (specification SpecScore) ----
    kpc,          \* position of the call: "none", "ready", "done"
    scoreStock,   \* the stock passed
    scoreOut,     \* the number returned, or Pending
    \* ---- getMarketMovers calls, one after another (specification SpecCache) ----
    now,          \* Date.now(), in milliseconds
    ticks,        \* how many times the clock has advanced
    storage,      \* AsyncStorage: the string stored under each key, or Null
    mpc,          \* position of the call: "idle", "reading", "requesting",
                  \* "writing", "returned"
    mmRead,       \* the call's cache read: when, what was stored, how it ended
    cachedData,   \* what getCachedData returned to the call
    mmRequests,   \* upstream requests the call has issued
    mmAnswer,     \* the upstream answer to the call's request
    mmWrite,      \* the entry setCachedData was called to store
    mmWrote,      \* how the storage write ended: "ok" or "failed"
    mmOut,        \* what getMarketMovers resolved to
    \* ---- concurrent getMarketMovers calls (specification SpecRace) ----
    race,         \* per caller: position, cache read, entry to write, result
    lastWrite,    \* the entry of the last setItem to complete, or Pending
    lastWriter,   \* the caller whose setItem completed last, or ""
    \* ---- the useStocks hook (specification SpecHook) ----
    mounted,      \* the mount effect has run
    inflight,     \* per load: "none", "awaiting" or "done"
    loading,      \* state `loading`
    refreshing,   \* state `refreshing`
    error,        \* state `error`: null or a message
    stocksState,  \* state `stocks`
    marketMovers  \* state `marketMovers`

detailVars == <<dpc, up, sub, detailsOut, dsym, requests, dorder>>
screenVars == <<pc, issued, settled, upstream, arrival, screenOut>>
chartVars == <<cpc, chartSym, chartUp, chartSeries, chartOut>>
smaVars == <<spc, smaGiven, smaPrices, smaPeriod, smaOut>>
scoreVars == <<kpc, scoreStock, scoreOut>>
cacheVars == <<now, ticks, storage, mpc, mmRead, cachedData, mmRequests,
               mmAnswer, mmWrite, mmWrote, mmOut>>
raceVars == <<race, lastWrite, lastWriter>>
hookVars == <<mounted, inflight, loading, refreshing, error, stocksState,
             marketMovers>>
otherVars == <<raceVars, hookVars>>
pureVars == <<smaVars, scoreVars, cacheVars, otherVars>>
vars == <<detailVars, screenVars, chartVars, smaVars, scoreVars, cacheVars,
          raceVars, hookVars>>

----------------------------------------------------------------------------
(* Bounds of the model *)

\* Number of symbols one batch screens.  The source screens
\* symbols.slice(0, 10); the model keeps the slice and shortens it.
UniverseSize == 2

\* The series handed to calculateSMA on its own: up to MaxLen values out of
\* 1..MaxClose, with a period of 1..MaxPeriod.
MaxLen == 5
MaxClose == 5
MaxPeriod == 3

\* How many times the clock advances while market movers are fetched.
MaxTicks == 4

\* How many times the clock advances while two callers fetch market movers.
MaxRaceTicks == 2

----------------------------------------------------------------------------
(* JavaScript values *)

undefined == [t |-> "undefined"]
NaN == [t |-> "NaN"]
Num(n) == [t |-> "number", v |-> n]
Str(s) == [t |-> "string", v |-> s]
NumStr(n) == [t |-> "numstr", v |-> n]
Pending == [t |-> "pending"]
Null == [t |-> "null"]

Arr(s) == [t |-> "array", v |-> s]
Date(d) == [t |-> "date", v |-> d]

\* a tagged value (primitive, array, date) as opposed to a plain object
IsPrimitive(x) == "t" \in DOMAIN x
IsNumber(x) == IsPrimitive(x) /\ x.t = "number"
IsArray(x) == IsPrimitive(x) /\ x.t = "array"

\* o.f and o?.f for a field the object may lack
Get(o, f) == IF f \in DOMAIN o /\ ~IsPrimitive(o) THEN o[f] ELSE undefined

\* ToBoolean
Truthy(x) ==
    IF ~IsPrimitive(x) THEN TRUE
    ELSE CASE x.t = "undefined" -> FALSE
           [] x.t = "null" -> FALSE
           [] x.t = "NaN" -> FALSE
           [] x.t = "number" -> x.v # 0
           [] x.t = "string" -> x.v # ""
           [] OTHER -> TRUE

\* a || b
Or(a, b) == IF Truthy(a) THEN a ELSE b

\* Mutant of parseFloat: what cannot be parsed becomes 0.
parseFloatOrZero(x) ==
    IF IsPrimitive(x) /\ x.t \in {"numstr", "number"} THEN Num(x.v) ELSE Num(0)

\* parseFloat / parseInt of an upstream field
parseFloat(x) ==
    IF IsPrimitive(x) /\ x.t \in {"numstr", "number"} THEN Num(x.v) ELSE NaN

parseInt(x) == parseFloat(x)

\* ToNumber, as applied by > and * to an operand
ToNumber(x) ==
    IF IsPrimitive(x) /\ x.t \in {"numstr", "number"} THEN Num(x.v) ELSE NaN

\* a > b
Gt(a, b) ==
    LET x == ToNumber(a)
        y == ToNumber(b)
    IN  IsNumber(x) /\ IsNumber(y) /\ x.v > y.v

\* a + b on numbers
Add(a, b) == IF IsNumber(a) /\ IsNumber(b) THEN Num(a.v + b.v) ELSE NaN

\* Mutant of Div: the divisor is one too many.
DivByOneMore(a, n) == IF IsNumber(a) THEN Num(a.v \div (n + 1)) ELSE NaN

\* a / n on numbers, n a positive integer (exact in the model's units)
Div(a, n) == IF IsNumber(a) THEN Num(a.v \div n) ELSE NaN

\* a.length, a[i] with a 0-based index (undefined outside the array)
Length(a) == Cardinality(DOMAIN a)
At(a, i) == IF 0 <= i /\ i < Length(a) THEN a[i + 1] ELSE undefined

\* a.slice(from, to)
Slice(a, from, to) == [k \in 1..(to - from) |-> a[from + k]]

----------------------------------------------------------------------------
(* The upstream (Market Data Gateway): what one HTTP request can come to *)

Transport == [kind |-> "transport"]     \* axios rejects: network unreachable
Timeout == [kind |-> "timeout"]         \* axios rejects: 10000 ms exceeded
Http(body) == [kind |-> "http", body |-> body]   \* a 2xx response

\* the upstream reports an error in the body of an ordinary response
ErrorPayload ==
    [code |-> Num(429), message |-> Str("quota exceeded"), status |-> Str("error")]
EmptyBody == Str("")

Dollars(d) == 200 * d

QuoteBody(symbol, price, pct, volume) ==
    [symbol |-> Str(symbol), name |-> Str(symbol),
     close |-> NumStr(price), change |-> NumStr(pct),
     percent_change |-> NumStr(pct), volume |-> NumStr(volume),
     fifty_two_week |-> [high |-> NumStr(price), low |-> NumStr(price)]]

ProfileBody(cap, pe) ==
    [market_cap |-> NumStr(cap), pe_ratio |-> NumStr(pe),
     price_to_book |-> NumStr(3), eps |-> NumStr(6),
     dividend_yield |-> NumStr(1), beta |-> NumStr(1)]

EarningsBody(g) ==
    [quarterly_revenue_growth |-> Num(g), quarterly_eps_growth |-> Num(g)]

GrowthBody(g) == [sales_growth |-> Num(g), eps_growth |-> Num(g)]

\* One daily bar as the upstream sends it.
Bar(day, close) ==
    [datetime |-> Date(day), open |-> NumStr(close), high |-> NumStr(close),
     low |-> NumStr(close), close |-> NumStr(close), volume |-> NumStr(1000)]

\* n daily bars, the most recent first (the upstream's order): the 50 most
\* recent days closed at `recent`, the 50 before them at `mid`, older days
\* at `old`.  Day numbers count back from day n.
BarsDescending(n, recent, mid, old) ==
    [k \in 1..n |->
        Bar(n + 1 - k, IF k <= 50 THEN recent ELSE IF k <= 100 THEN mid ELSE old)]

\* the same bars, oldest first
BarsAscending(n, recent, mid, old) ==
    [k \in 1..n |->
        Bar(k, IF k > n - 50 THEN recent ELSE IF k > n - 100 THEN mid ELSE old)]

TimeSeriesBody(bars) == [values |-> Arr(bars), status |-> Str("ok")]

----------------------------------------------------------------------------
(* ApiService: the lookups *)

\* makeRequest: a 2xx response is a success whatever its body says; a
\* rejected request becomes { error, success: false }.
makeRequest(answer) ==
    IF answer.kind = "http"
    THEN [data |-> answer.body, success |-> TRUE]
    ELSE [error |-> Str(IF answer.kind = "timeout"
                        THEN "timeout of 10000ms exceeded"
                        ELSE "Network Error"),
          success |-> FALSE]

getStockQuote(answer) ==
    LET response == makeRequest(answer) IN
    IF response.success /\ Truthy(Get(response, "data"))
    THEN LET d == response.data IN
         [data |-> [symbol |-> Get(d, "symbol"),
                    company_name |-> Get(d, "name"),
                    current_price |-> parseFloat(Get(d, "close")),
                    price_change |-> parseFloat(Get(d, "change")),
                    price_change_percent |-> parseFloat(Get(d, "percent_change")),
                    volume |-> parseInt(Get(d, "volume")),
                    high_52w |-> parseFloat(Get(Get(d, "fifty_two_week"), "high")),
                    low_52w |-> parseFloat(Get(Get(d, "fifty_two_week"), "low"))],
          success |-> TRUE]
    ELSE response

\* values.map(item => ({ date, open, high, low, close, volume }))
PriceHistoryOf(values) ==
    [k \in DOMAIN values |->
        [date |-> Get(values[k], "datetime"),
         open |-> parseFloat(Get(values[k], "open")),
         high |-> parseFloat(Get(values[k], "high")),
         low |-> parseFloat(Get(values[k], "low")),
         close |-> parseFloat(Get(values[k], "close")),
         volume |-> parseInt(Get(values[k], "volume"))]]

getStockTimeSeries(answer) ==
    LET response == makeRequest(answer) IN
    IF response.success /\ Truthy(Get(Get(response, "data"), "values"))
    THEN [data |-> Arr(PriceHistoryOf(response.data.values.v)), success |-> TRUE]
    ELSE response

\* Mutant of getStockFundamentals: a record only if all three requests succeed.
getStockFundamentalsAllOrFail(profileAnswer, earningsAnswer, growthAnswer) ==
    LET profileResponse == makeRequest(profileAnswer)
        earningsResponse == makeRequest(earningsAnswer)
        growthResponse == makeRequest(growthAnswer)
    IN  IF ~earningsResponse.success THEN earningsResponse
        ELSE IF ~growthResponse.success THEN growthResponse
        ELSE IF profileResponse.success /\ Truthy(Get(profileResponse, "data"))
        THEN LET profile == profileResponse.data
                 earnings == Get(earningsResponse, "data")
                 growth == Get(growthResponse, "data")
             IN  [data |->
                    [market_cap |-> parseFloat(Get(profile, "market_cap")),
                     pe_ratio |-> parseFloat(Get(profile, "pe_ratio")),
                     price_to_book |-> parseFloat(Get(profile, "price_to_book")),
                     eps |-> parseFloat(Get(profile, "eps")),
                     dividend_yield |-> parseFloat(Get(profile, "dividend_yield")),
                     beta |-> parseFloat(Get(profile, "beta")),
                     quarterly_revenue_growth |->
                         Get(earnings, "quarterly_revenue_growth"),
                     quarterly_eps_growth |-> Get(earnings, "quarterly_eps_growth"),
                     estimated_sales_growth |-> Get(growth, "sales_growth"),
                     estimated_eps_growth |-> Get(growth, "eps_growth")],
                  success |-> TRUE]
        ELSE profileResponse

getStockFundamentals(profileAnswer, earningsAnswer, growthAnswer) ==
    LET profileResponse == makeRequest(profileAnswer)
        earningsResponse == makeRequest(earningsAnswer)
        growthResponse == makeRequest(growthAnswer)
    IN  IF profileResponse.success /\ Truthy(Get(profileResponse, "data"))
        THEN LET profile == profileResponse.data
                 earnings == Get(earningsResponse, "data")
                 growth == Get(growthResponse, "data")
             IN  [data |->
                    [market_cap |-> parseFloat(Get(profile, "market_cap")),
                     pe_ratio |-> parseFloat(Get(profile, "pe_ratio")),
                     price_to_book |-> parseFloat(Get(profile, "price_to_book")),
                     eps |-> parseFloat(Get(profile, "eps")),
                     dividend_yield |-> parseFloat(Get(profile, "dividend_yield")),
                     beta |-> parseFloat(Get(profile, "beta")),
                     quarterly_revenue_growth |->
                         Get(earnings, "quarterly_revenue_growth"),
                     quarterly_eps_growth |-> Get(earnings, "quarterly_eps_growth"),
                     estimated_sales_growth |-> Get(growth, "sales_growth"),
                     estimated_eps_growth |-> Get(growth, "eps_growth")],
                  success |-> TRUE]
        ELSE profileResponse

\* { ...a, f: v }: the fields of a, then f
Spread(a, f, v) ==
    [g \in (IF IsPrimitive(a) THEN {} ELSE DOMAIN a) \cup {f} |->
        IF g = f THEN v ELSE a[g]]

\* Mutants of getStockDetails: one that builds the record without looking at
\* the quote's outcome, one that needs all three sub-calls to succeed.
getStockDetailsUnchecked(quoteResponse, fundamentalsResponse, timeSeriesResponse) ==
    [data |-> Spread(Spread(Get(quoteResponse, "data"),
                            "fundamentals", Get(fundamentalsResponse, "data")),
                     "price_history", Get(timeSeriesResponse, "data")),
     success |-> TRUE]

getStockDetailsAllOrFail(quoteResponse, fundamentalsResponse, timeSeriesResponse) ==
    IF ~fundamentalsResponse.success THEN fundamentalsResponse
    ELSE IF ~timeSeriesResponse.success THEN timeSeriesResponse
    ELSE IF quoteResponse.success /\ Truthy(Get(quoteResponse, "data"))
    THEN [data |-> Spread(Spread(quoteResponse.data,
                                 "fundamentals", Get(fundamentalsResponse, "data")),
                          "price_history", Get(timeSeriesResponse, "data")),
          success |-> TRUE]
    ELSE quoteResponse

\* The continuation of getStockDetails after its Promise.all.
getStockDetails(quoteResponse, fundamentalsResponse, timeSeriesResponse) ==
    IF quoteResponse.success /\ Truthy(Get(quoteResponse, "data"))
    THEN [data |-> Spread(Spread(quoteResponse.data,
                                 "fundamentals", Get(fundamentalsResponse, "data")),
                          "price_history", Get(timeSeriesResponse, "data")),
          success |-> TRUE]
    ELSE quoteResponse

----------------------------------------------------------------------------
(* ApiService: the result cache and getMarketMovers *)

CACHE_DURATION == 300000        \* 5 * 60 * 1000 milliseconds

\* the keys of AsyncStorage the service uses
CacheKeys == {"market_movers"}

\* An AsyncStorage call settles fulfilled with a value or rejected.
StorageFailed == [status |-> "rejected", reason |-> Str("storage unavailable")]
StorageGave(value) == [status |-> "fulfilled", value |-> value]

\* The text JSON.stringify produces, held as the value it encodes.  JSON has
\* no NaN and no undefined: a NaN is written as null, a field that is
\* undefined is left out.
Json(value) == [t |-> "json", v |-> value]
jsonValue(x) == IF IsPrimitive(x) /\ x.t = "NaN" THEN Null ELSE x
jsonObject(o) ==
    [f \in {g \in DOMAIN o : o[g] # undefined} |-> jsonValue(o[f])]
jsonList(a) == Arr([k \in 1..Length(a.v) |-> jsonObject(a.v[k])])

\* JSON.stringify({ data, timestamp: Date.now() }), data a list of movers
stringifyEntry(data, time) == Json([data |-> jsonList(data), timestamp |-> Num(time)])

\* Whether JSON.parse accepts a stored string, and what it gives.
Parses(text) == IsPrimitive(text) /\ text.t = "json"
parse(text) == text.v

\* Mutants of getCachedData: an entry is still served when its age is exactly
\* CACHE_DURATION; an entry that cannot be decoded is returned as it is stored;
\* every read is a miss.
getCachedDataInclusive(read, time) ==
    IF read.status = "rejected" THEN Null
    ELSE LET cached == read.value IN
         IF ~Truthy(cached) THEN Null
         ELSE IF ~Parses(cached) THEN Null
         ELSE IF IsPrimitive(parse(cached)) THEN Null
         ELSE LET data == Get(parse(cached), "data")
                  timestamp == ToNumber(Get(parse(cached), "timestamp"))
              IN  IF IsNumber(timestamp) /\ time - timestamp.v <= CACHE_DURATION
                  THEN data ELSE Null

getCachedDataRaw(read, time) ==
    IF read.status = "rejected" THEN Null
    ELSE LET cached == read.value IN
         IF ~Truthy(cached) THEN Null
         ELSE IF ~Parses(cached) THEN cached
         ELSE IF IsPrimitive(parse(cached)) THEN cached
         ELSE LET data == Get(parse(cached), "data")
                  timestamp == ToNumber(Get(parse(cached), "timestamp"))
              IN  IF IsNumber(timestamp) /\ time - timestamp.v < CACHE_DURATION
                  THEN data ELSE Null

getCachedDataNever(read, time) == Null

\* getCachedData, given how AsyncStorage.getItem settled and the time of the
\* read.  A rejected read, a text JSON.parse refuses and a parsed value that
\* cannot be destructured (null) all throw inside the try block and end in
\* the catch; every path but the fresh entry returns null.
getCachedData(read, time) ==
    IF read.status = "rejected" THEN Null
    ELSE LET cached == read.value IN
         IF ~Truthy(cached) THEN Null
         ELSE IF ~Parses(cached) THEN Null
         ELSE IF IsPrimitive(parse(cached)) THEN Null
         ELSE LET data == Get(parse(cached), "data")
                  timestamp == ToNumber(Get(parse(cached), "timestamp"))
              IN  IF IsNumber(timestamp) /\ time - timestamp.v < CACHE_DURATION
                  THEN data ELSE Null

\* Mutant of setCachedData: an entry already stored under the key is kept.
setCachedDataFirstWins(store, key, entry, write) ==
    IF write.status = "fulfilled" /\ store[key] = Null
    THEN [store EXCEPT ![key] = entry] ELSE store

\* setCachedData, given how AsyncStorage.setItem settled: the storage after
\* it.  A rejected write leaves the storage as it was and is not rethrown.
setCachedData(store, key, entry, write) ==
    IF write.status = "fulfilled" THEN [store EXCEPT ![key] = entry] ELSE store

\* One item of /market_movers/stocks as the upstream sends it.
MoverItem(symbol, price, pct) ==
    [symbol |-> Str(symbol), name |-> Str(symbol), price |-> NumStr(price),
     change |-> NumStr(pct), percent_change |-> NumStr(pct),
     volume |-> NumStr(1000)]
MoversBody(items) == [values |-> Arr(items), status |-> Str("ok")]

\* response.data.values?.map(item => ({ ... })) || []
moversOf(body) ==
    LET values == Get(body, "values") IN
    IF IsArray(values)
    THEN Arr([k \in 1..Length(values.v) |->
                [symbol |-> Get(values.v[k], "symbol"),
                 name |-> Get(values.v[k], "name"),
                 price |-> parseFloat(Get(values.v[k], "price")),
                 change |-> parseFloat(Get(values.v[k], "change")),
                 change_percent |-> parseFloat(Get(values.v[k], "percent_change")),
                 volume |-> parseInt(Get(values.v[k], "volume"))]])
    ELSE Arr(<<>>)

----------------------------------------------------------------------------
(* ApiService: indicators and score *)

SMA50_PERIOD == 50
SMA100_PERIOD == 100
SMA200_PERIOD == 200
MIN_HISTORY == 200

VOLUME_THRESHOLD == 1000000
PE_CEILING == 25
LARGE_CAP == 10000      \* 10,000,000,000 dollars, in millions
MID_CAP == 2000         \* 2,000,000,000 dollars, in millions

\* a.reduce((x, y) => x + y, 0), the sum of a[lo..hi] starting from acc.  The
\* sum is taken by halves: + is associative on the model's exact numbers and
\* NaN absorbs on either side, so the value is that of the left-to-right fold.
RECURSIVE reduceAdd(_, _, _, _)
reduceAdd(a, lo, hi, acc) ==
    IF lo > hi THEN acc
    ELSE IF lo = hi THEN Add(acc, a[lo])
    ELSE LET mid == (lo + hi) \div 2 IN
         Add(reduceAdd(a, lo, mid, acc), reduceAdd(a, mid + 1, hi, Num(0)))

\* calculateSMA: one mean per loop index i = period-1 .. prices.length-1;
\* element j of the result (1-based) is the one pushed at i = j + period - 2.
smaLength(prices, period) ==
    IF Length(prices) >= period THEN Length(prices) - period + 1 ELSE 0

\* Mutant of calculateSMA: the loop starts at the first price and averages
\* the prices there are so far.
calculateSMAFromFirst(prices, period) ==
    [j \in 1..Length(prices) |->
        LET from == IF j > period THEN j - period ELSE 0
        IN  Div(reduceAdd(Slice(prices, from, j), 1, j - from, Num(0)), period)]

calculateSMA(prices, period) ==
    [j \in 1..smaLength(prices, period) |->
        LET i == j + period - 2
            sum == reduceAdd(Slice(prices, i - period + 1, i + 1), 1, period, Num(0))
        IN  Div(sum, period)]

\* sma[sma.length - 1] for sma = calculateSMA(prices, period)
lastSMA(prices, period) ==
    IF smaLength(prices, period) > 0
    THEN calculateSMA(prices, period)[smaLength(prices, period)]
    ELSE undefined

\* Mutant of calculateScore: the momentum term is added whatever its sign and
\* the sum is returned as it is.
calculateScoreSigned(stock) ==
    LET fundamentals == Get(stock, "fundamentals")
        pct == Get(stock, "price_change_percent")
        volume == Get(stock, "volume")
        pe == Get(fundamentals, "pe_ratio")
        revenueGrowth == Get(fundamentals, "quarterly_revenue_growth")
        epsGrowth == Get(fundamentals, "quarterly_eps_growth")
        marketCap == Get(fundamentals, "market_cap")
        momentum == IF Truthy(pct) THEN ToNumber(pct).v * 2 ELSE 0
        liquidity ==
            IF Truthy(volume) /\ Gt(volume, Num(VOLUME_THRESHOLD)) THEN 100 ELSE 0
        valuation ==
            IF Truthy(pe) /\ Gt(pe, Num(0)) /\ Gt(Num(PE_CEILING), pe)
            THEN (PE_CEILING - ToNumber(pe).v) * 20 ELSE 0
        revenue ==
            IF Truthy(revenueGrowth) /\ Gt(revenueGrowth, Num(0))
            THEN ToNumber(revenueGrowth).v * 3 ELSE 0
        eps ==
            IF Truthy(epsGrowth) /\ Gt(epsGrowth, Num(0))
            THEN ToNumber(epsGrowth).v * 3 ELSE 0
        scale ==
            IF Truthy(marketCap)
            THEN IF Gt(marketCap, Num(LARGE_CAP)) THEN 200
                 ELSE IF Gt(marketCap, Num(MID_CAP)) THEN 100 ELSE 0
            ELSE 0
        score == momentum + liquidity + valuation + revenue + eps + scale
    IN  Num(score)

\* Mutant of calculateScore: a market cap of exactly 10B counts as large.
calculateScoreLargeFromTenBillion(stock) ==
    LET fundamentals == Get(stock, "fundamentals")
        pct == Get(stock, "price_change_percent")
        volume == Get(stock, "volume")
        pe == Get(fundamentals, "pe_ratio")
        revenueGrowth == Get(fundamentals, "quarterly_revenue_growth")
        epsGrowth == Get(fundamentals, "quarterly_eps_growth")
        marketCap == Get(fundamentals, "market_cap")
        momentum == IF Truthy(pct) /\ Gt(pct, Num(0)) THEN ToNumber(pct).v * 2 ELSE 0
        liquidity ==
            IF Truthy(volume) /\ Gt(volume, Num(VOLUME_THRESHOLD)) THEN 100 ELSE 0
        valuation ==
            IF Truthy(pe) /\ Gt(pe, Num(0)) /\ Gt(Num(PE_CEILING), pe)
            THEN (PE_CEILING - ToNumber(pe).v) * 20 ELSE 0
        revenue ==
            IF Truthy(revenueGrowth) /\ Gt(revenueGrowth, Num(0))
            THEN ToNumber(revenueGrowth).v * 3 ELSE 0
        eps ==
            IF Truthy(epsGrowth) /\ Gt(epsGrowth, Num(0))
            THEN ToNumber(epsGrowth).v * 3 ELSE 0
        scale ==
            IF Truthy(marketCap)
            THEN IF ~Gt(Num(LARGE_CAP), marketCap) THEN 200
                 ELSE IF Gt(marketCap, Num(MID_CAP)) THEN 100 ELSE 0
            ELSE 0
        score == momentum + liquidity + valuation + revenue + eps + scale
    IN  Num(IF score > 0 THEN score ELSE 0)

\* calculateScore, in tenths of a point.
calculateScore(stock) ==
    LET fundamentals == Get(stock, "fundamentals")
        pct == Get(stock, "price_change_percent")
        volume == Get(stock, "volume")
        pe == Get(fundamentals, "pe_ratio")
        revenueGrowth == Get(fundamentals, "quarterly_revenue_growth")
        epsGrowth == Get(fundamentals, "quarterly_eps_growth")
        marketCap == Get(fundamentals, "market_cap")
        momentum == IF Truthy(pct) /\ Gt(pct, Num(0)) THEN ToNumber(pct).v * 2 ELSE 0
        liquidity ==
            IF Truthy(volume) /\ Gt(volume, Num(VOLUME_THRESHOLD)) THEN 100 ELSE 0
        valuation ==
            IF Truthy(pe) /\ Gt(pe, Num(0)) /\ Gt(Num(PE_CEILING), pe)
            THEN (PE_CEILING - ToNumber(pe).v) * 20 ELSE 0
        revenue ==
            IF Truthy(revenueGrowth) /\ Gt(revenueGrowth, Num(0))
            THEN ToNumber(revenueGrowth).v * 3 ELSE 0
        eps ==
            IF Truthy(epsGrowth) /\ Gt(epsGrowth, Num(0))
            THEN ToNumber(epsGrowth).v * 3 ELSE 0
        scale ==
            IF Truthy(marketCap)
            THEN IF Gt(marketCap, Num(LARGE_CAP)) THEN 200
                 ELSE IF Gt(marketCap, Num(MID_CAP)) THEN 100 ELSE 0
            ELSE 0
        score == momentum + liquidity + valuation + revenue + eps + scale
    IN  Num(IF score > 0 THEN score ELSE 0)

----------------------------------------------------------------------------
(* ApiService.screenStocks *)

symbols ==
    << "AAPL", "MSFT", "GOOGL", "AMZN", "TSLA", "META", "NVDA", "NFLX",
       "CRM", "ADBE", "ORCL", "IBM", "INTC", "AMD", "QCOM", "AVGO",
       "JPM", "BAC", "GS", "MS", "WFC", "C", "AXP", "V", "MA", "PYPL" >>

\* Mutant of Universe: the slice stops one symbol short.
UniverseOffByOne == [k \in 1..(UniverseSize - 1) |-> symbols[k]]

\* symbols.slice(0, UniverseSize)
Universe == Slice(symbols, 0, UniverseSize)

Fulfilled(value) == [status |-> "fulfilled", value |-> value]

\* Mutant of allSettled: the outcomes in the order the promises settled.
settledInArrivalOrder(promises, order) == [k \in DOMAIN order |-> promises[order[k]]]

\* Promise.allSettled: one outcome per promise, in the order of the promises
\* whatever the order in which they settled.
allSettled(promises, order) == [i \in DOMAIN promises |-> promises[i]]

\* stock.price_history.length >= 200 (the length of a non-array is undefined)
HasFullHistory(history) ==
    Truthy(history) /\ IsArray(history) /\ Length(history.v) >= MIN_HISTORY

\* Mutant of sma50AboveSma200: the operands the wrong way round.
sma50BelowSma200(lastSma50, lastSma200) == Gt(lastSma200, lastSma50)

\* The three comparisons of the screening rule, each on the last element of
\* its series: currentPrice > sma200[sma200.length - 1], and so on.
priceAboveSma200(currentPrice, lastSma200) == Gt(currentPrice, lastSma200)
sma50AboveSma200(lastSma50, lastSma200) == Gt(lastSma50, lastSma200)
sma100AboveSma200(lastSma100, lastSma200) == Gt(lastSma100, lastSma200)

\* Mutant of screenOne: every aggregated stock is pushed, with a result.
screenOneUnscreened(result) ==
    IF result.status = "fulfilled" /\ result.value.success
       /\ Truthy(Get(result.value, "data"))
    THEN Spread(result.value.data, "screening_result",
                [passes_all_criteria |-> FALSE,
                 score |-> calculateScore(result.value.data)])
    ELSE undefined

\* The body of results.forEach for one outcome: the stock it pushes, with its
\* screening_result set, or undefined when it pushes nothing.
screenOne(result) ==
    IF result.status = "fulfilled" /\ result.value.success
       /\ Truthy(Get(result.value, "data"))
    THEN LET stock == result.value.data IN
         IF HasFullHistory(Get(stock, "price_history"))
         THEN LET history == stock.price_history.v
                  prices == [k \in 1..Length(history) |-> history[k].close]
                  lastSma200 == lastSMA(prices, SMA200_PERIOD)
                  lastSma50 == lastSMA(prices, SMA50_PERIOD)
                  lastSma100 == lastSMA(prices, SMA100_PERIOD)
                  currentPrice == Or(Get(stock, "current_price"), Num(0))
                  meetsScreening ==
                      /\ priceAboveSma200(currentPrice, lastSma200)
                      /\ sma50AboveSma200(lastSma50, lastSma200)
                      /\ sma100AboveSma200(lastSma100, lastSma200)
              IN  IF meetsScreening
                  THEN Spread(stock, "screening_result",
                         [price_above_sma200 |->
                              priceAboveSma200(currentPrice, lastSma200),
                          sma50_above_sma200 |->
                              sma50AboveSma200(lastSma50, lastSma200),
                          sma100_above_sma200 |->
                              sma100AboveSma200(lastSma100, lastSma200),
                          current_price |-> currentPrice,
                          sma50 |-> lastSma50,
                          sma100 |-> lastSma100,
                          sma200 |-> lastSma200,
                          passes_all_criteria |-> TRUE,
                          meets_all_criteria |-> TRUE,
                          score |-> calculateScore(stock)])
                  ELSE undefined
         ELSE undefined
    ELSE undefined

\* Mutant of forEachResult: the loop ends at the first failed outcome.
RECURSIVE forEachUntilFailure(_, _, _)
forEachUntilFailure(results, k, stocks) ==
    IF k > Length(results) THEN stocks
    ELSE IF ~results[k].value.success THEN stocks
    ELSE LET pushed == screenOne(results[k]) IN
         forEachUntilFailure(results, k + 1,
                             IF pushed = undefined THEN stocks
                             ELSE Append(stocks, pushed))

\* results.forEach(...): the stocks pushed, in the order of the results
RECURSIVE forEachResult(_, _, _)
forEachResult(results, k, stocks) ==
    IF k > Length(results) THEN stocks
    ELSE LET pushed == screenOne(results[k]) IN
         forEachResult(results, k + 1,
                       IF pushed = undefined THEN stocks ELSE Append(stocks, pushed))

\* Mutant of compareScore: a and b exchanged, which sorts ascending.
compareScoreAscending(a, b) ==
    Or(Get(Get(a, "screening_result"), "score"), Num(0)).v
        - Or(Get(Get(b, "screening_result"), "score"), Num(0)).v

\* (a, b) => (b.screening_result?.score || 0) - (a.screening_result?.score || 0)
compareScore(a, b) ==
    Or(Get(Get(b, "screening_result"), "score"), Num(0)).v
        - Or(Get(Get(a, "screening_result"), "score"), Num(0)).v

\* Array.prototype.sort, which is stable: x goes behind every element that
\* does not compare greater than it.
RECURSIVE insertSorted(_, _)
insertSorted(sorted, x) ==
    IF sorted = <<>> THEN <<x>>
    ELSE IF compareScore(sorted[Len(sorted)], x) <= 0 THEN Append(sorted, x)
    ELSE Append(insertSorted(SubSeq(sorted, 1, Len(sorted) - 1), x),
                sorted[Len(sorted)])

RECURSIVE sortStocks(_, _, _)
sortStocks(stocks, k, sorted) ==
    IF k > Len(stocks) THEN sorted
    ELSE sortStocks(stocks, k + 1, insertSorted(sorted, stocks[k]))

\* The continuation of screenStocks after its Promise.allSettled.
screenStocks(results) ==
    [data |-> Arr(sortStocks(forEachResult(results, 1, <<>>), 1, <<>>)),
     success |-> TRUE]

----------------------------------------------------------------------------
(* ApiService.getChartData *)

OUTPUT_SIZE == 200      \* outputsize of the time-series request

\* an async function that throws settles its promise as rejected
Rejected(reason) == [status |-> "rejected", reason |-> reason]

\* Mutant of reverse: the array is left in the order it had.
reverseNot(a) == [k \in 1..Length(a) |-> a[k]]

\* a.reverse(): the array, reversed in place, is also what the call returns
reverse(a) == [k \in 1..Length(a) |-> a[Length(a) + 1 - k]]

\* Mutant of getChartData: the overlays are computed before prices is reversed.
getChartDataOverlaysFirst(timeSeriesResponse) ==
    IF timeSeriesResponse.success /\ Truthy(Get(timeSeriesResponse, "data"))
    THEN IF ~IsArray(timeSeriesResponse.data)
         THEN Rejected(Str("TypeError: priceHistory.map is not a function"))
         ELSE LET priceHistory == timeSeriesResponse.data.v
                  mapped == [k \in 1..Length(priceHistory) |-> priceHistory[k].close]
                  dates == [k \in 1..Length(priceHistory) |-> priceHistory[k].date]
                  prices == reverse(mapped)
              IN  Fulfilled(
                    [data |-> [dates |-> Arr(reverse(dates)),
                               prices |-> Arr(prices),
                               sma50 |-> Arr(calculateSMA(mapped, SMA50_PERIOD)),
                               sma100 |-> Arr(calculateSMA(mapped, SMA100_PERIOD)),
                               sma200 |-> Arr(calculateSMA(mapped, SMA200_PERIOD))],
                     success |-> TRUE])
    ELSE Fulfilled([error |-> Str("Failed to get chart data"), success |-> FALSE])

\* The continuation of getChartData after its time-series lookup.  The object
\* literal is evaluated field by field: prices.reverse() has reversed prices in
\* place by the time the three calculateSMA calls read it.  A data that is no
\* array has no map method, and the call throws.
getChartData(timeSeriesResponse) ==
    IF timeSeriesResponse.success /\ Truthy(Get(timeSeriesResponse, "data"))
    THEN IF ~IsArray(timeSeriesResponse.data)
         THEN Rejected(Str("TypeError: priceHistory.map is not a function"))
         ELSE LET priceHistory == timeSeriesResponse.data.v
                  mapped == [k \in 1..Length(priceHistory) |-> priceHistory[k].close]
                  dates == [k \in 1..Length(priceHistory) |-> priceHistory[k].date]
                  prices == reverse(mapped)
              IN  Fulfilled(
                    [data |-> [dates |-> Arr(reverse(dates)),
                               prices |-> Arr(prices),
                               sma50 |-> Arr(calculateSMA(prices, SMA50_PERIOD)),
                               sma100 |-> Arr(calculateSMA(prices, SMA100_PERIOD)),
                               sma200 |-> Arr(calculateSMA(prices, SMA200_PERIOD))],
                     success |-> TRUE])
    ELSE Fulfilled([error |-> Str("Failed to get chart data"), success |-> FALSE])

----------------------------------------------------------------------------
(* The answers the upstream is taken to give *)

\* 200 bars of a rising stock: SMA50 = 145, SMA100 = 142, SMA200 = 140 dollars
\* over the most recent bars.
RisingAscending == BarsAscending(200, Dollars(145), Dollars(139), Dollars(138))
RisingDescending == BarsDescending(200, Dollars(145), Dollars(139), Dollars(138))
ShortAscending == BarsAscending(199, Dollars(145), Dollars(139), Dollars(138))
\* 200 bars of a stock whose last 50 closes average 135 dollars
DippingAscending == BarsAscending(200, Dollars(135), Dollars(149), Dollars(138))
\* 200 bars, the most recent first, of a stock that has fallen: its 100 most
\* recent closes average 135 dollars, the 100 before them 145 dollars
FallingDescending == BarsDescending(200, Dollars(135), Dollars(135), Dollars(145))

QuoteAnswers(symbol) ==
    {Transport, Timeout, Http(ErrorPayload), Http(EmptyBody),
     Http(QuoteBody(symbol, Dollars(150), 5, 2000000)),
     Http(QuoteBody(symbol, Dollars(139), 0, 1000000))}
ProfileAnswers == {Transport, Http(ErrorPayload), Http(ProfileBody(50000, 15))}
EarningsAnswers == {Timeout, Http(EarningsBody(10))}
GrowthAnswers == {Transport, Http(GrowthBody(8))}
TimeSeriesAnswers ==
    {Transport, Timeout, Http(ErrorPayload), Http(EmptyBody),
     Http(TimeSeriesBody(ShortAscending)),
     Http(TimeSeriesBody(RisingAscending)),
     Http(TimeSeriesBody(RisingDescending))}

----------------------------------------------------------------------------
(* One getStockDetails call: the three sub-calls are started one after the  *)
(* other, each sending its requests before it first waits; they run         *)
(* concurrently and the call resumes when all three have settled.           *)

SubCalls == {"quote", "fundamentals", "timeSeries"}
Endpoints == {"quote", "profile", "earnings", "growth_estimates", "time_series"}

CallGetStockDetails(symbol) ==
    /\ dpc = "idle"
    /\ dpc' = "waiting"
    /\ dsym' = symbol
    /\ sub' = [c \in SubCalls |-> Pending]
    /\ up' = [e \in Endpoints |-> Pending]
    /\ requests' = [e \in Endpoints |-> requests[e] + 1]
    /\ UNCHANGED <<detailsOut, dorder, screenVars, chartVars, pureVars>>

\* Mutant of QuoteSettles: a failed quote request is sent once more.
QuoteSettlesRetrying ==
    /\ dpc = "waiting" /\ sub["quote"] = Pending
    /\ \E a \in QuoteAnswers(dsym) :
          IF a.kind # "http" /\ requests["quote"] < 2
          THEN /\ requests' = [requests EXCEPT !["quote"] = @ + 1]
               /\ UNCHANGED <<up, sub, dorder>>
          ELSE /\ up' = [up EXCEPT !["quote"] = a]
               /\ sub' = [sub EXCEPT !["quote"] = getStockQuote(a)]
               /\ dorder' = Append(dorder, "quote")
               /\ UNCHANGED requests
    /\ UNCHANGED <<dpc, dsym, detailsOut, screenVars, chartVars, pureVars>>

QuoteSettles ==
    /\ dpc = "waiting" /\ sub["quote"] = Pending
    /\ \E a \in QuoteAnswers(dsym) :
          /\ up' = [up EXCEPT !["quote"] = a]
          /\ sub' = [sub EXCEPT !["quote"] = getStockQuote(a)]
    /\ dorder' = Append(dorder, "quote")
    /\ UNCHANGED <<dpc, dsym, detailsOut, requests, screenVars, chartVars, pureVars>>

FundamentalsSettles ==
    /\ dpc = "waiting" /\ sub["fundamentals"] = Pending
    /\ \E p \in ProfileAnswers, e \in EarningsAnswers, g \in GrowthAnswers :
          /\ up' = [up EXCEPT !["profile"] = p, !["earnings"] = e,
                              !["growth_estimates"] = g]
          /\ sub' = [sub EXCEPT !["fundamentals"] = getStockFundamentals(p, e, g)]
    /\ dorder' = Append(dorder, "fundamentals")
    /\ UNCHANGED <<dpc, dsym, detailsOut, requests, screenVars, chartVars, pureVars>>

TimeSeriesSettles ==
    /\ dpc = "waiting" /\ sub["timeSeries"] = Pending
    /\ \E a \in TimeSeriesAnswers :
          /\ up' = [up EXCEPT !["time_series"] = a]
          /\ sub' = [sub EXCEPT !["timeSeries"] = getStockTimeSeries(a)]
    /\ dorder' = Append(dorder, "timeSeries")
    /\ UNCHANGED <<dpc, dsym, detailsOut, requests, screenVars, chartVars, pureVars>>

\* Mutant of GetStockDetailsReturns: the call resumes when the quote has settled.
GetStockDetailsReturnsEarly ==
    /\ dpc = "waiting"
    /\ sub["quote"] # Pending
    /\ detailsOut' =
          getStockDetails(sub["quote"], sub["fundamentals"], sub["timeSeries"])
    /\ dpc' = "returned"
    /\ UNCHANGED <<up, sub, dsym, requests, dorder, screenVars, chartVars, pureVars>>

GetStockDetailsReturns ==
    /\ dpc = "waiting"
    /\ \A c \in SubCalls : sub[c] # Pending
    /\ detailsOut' =
          getStockDetails(sub["quote"], sub["fundamentals"], sub["timeSeries"])
    /\ dpc' = "returned"
    /\ UNCHANGED <<up, sub, dsym, requests, dorder, screenVars, chartVars, pureVars>>

----------------------------------------------------------------------------
(* One screenStocks call *)

\* The answers the five requests of one getStockDetails call received.
Case(q, p, e, g, h) ==
    [quote |-> q, profile |-> p, earnings |-> e, growth_estimates |-> g,
     time_series |-> h]

\* getStockDetails as a whole: what it resolves to on these answers.
detailsOf(case) ==
    getStockDetails(getStockQuote(case.quote),
                    getStockFundamentals(case.profile, case.earnings,
                                         case.growth_estimates),
                    getStockTimeSeries(case.time_series))

\* The answers the getStockDetails call of each symbol of the universe can
\* receive: a failed quote; a quote with or without fundamentals, over no
\* history, a short one, one that meets the rule and one that does not; error
\* payloads for quote and profile, over a history that meets the rule; and a
\* quote over a history delivered most recent bar first.
DetailsCases ==
    [symbol \in {Universe[i] : i \in DOMAIN Universe} |->
        {Case(Transport, Timeout, Timeout, Timeout, Timeout)}
        \cup
        {Case(Http(QuoteBody(symbol, Dollars(150), 5, 2000000)), p,
              Http(EarningsBody(10)), Http(GrowthBody(8)), h) :
            p \in {Timeout, Http(ProfileBody(50000, 15))},
            h \in {Timeout,
                   Http(TimeSeriesBody(ShortAscending)),
                   Http(TimeSeriesBody(RisingAscending)),
                   Http(TimeSeriesBody(DippingAscending))}}
        \cup
        {Case(Http(ErrorPayload), Http(ErrorPayload), Timeout, Timeout,
              Http(TimeSeriesBody(RisingAscending))),
         Case(Http(QuoteBody(symbol, Dollars(150), 5, 2000000)),
              Timeout, Timeout, Timeout,
              Http(TimeSeriesBody(FallingDescending)))}]

\* Each case with what getStockDetails resolves to on it.
DetailsOutcomes ==
    [symbol \in {Universe[i] : i \in DOMAIN Universe} |->
        {[case |-> c, value |-> detailsOf(c)] : c \in DetailsCases[symbol]}]

\* symbols.slice(0, 10).map(symbol => this.getStockDetails(symbol)): every
\* call is started before screenStocks first waits.
CallScreenStocks ==
    /\ pc = "idle"
    /\ issued' = {Universe[i] : i \in DOMAIN Universe}
    /\ settled' = [i \in DOMAIN Universe |-> Pending]
    /\ upstream' = [i \in DOMAIN Universe |-> Pending]
    /\ arrival' = <<>>
    /\ pc' = "awaiting"
    /\ UNCHANGED <<screenOut, detailVars, chartVars, pureVars>>

DetailsSettles(i) ==
    /\ pc = "awaiting" /\ settled[i] = Pending
    /\ \E outcome \in DetailsOutcomes[Universe[i]] :
          /\ settled' = [settled EXCEPT ![i] = Fulfilled(outcome.value)]
          /\ upstream' = [upstream EXCEPT ![i] = outcome.case]
    /\ arrival' = Append(arrival, i)
    /\ UNCHANGED <<pc, issued, screenOut, detailVars, chartVars, pureVars>>

ScreenStocksReturns ==
    /\ pc = "awaiting"
    /\ \A i \in DOMAIN settled : settled[i] # Pending
    /\ screenOut' = screenStocks(allSettled(settled, arrival))
    /\ pc' = "done"
    /\ UNCHANGED <<issued, settled, upstream, arrival, detailVars, chartVars,
                   pureVars>>

----------------------------------------------------------------------------
(* One getChartData call *)

\* The histories the time-series request of a chart can be answered with: up
\* to OUTPUT_SIZE bars, oldest or most recent first, of a stock that rose and
\* of one that dipped.
ChartLengths == {0, 1, 49, 50, 51, 99, 100, 150, 199, OUTPUT_SIZE}
ChartHistories ==
    UNION {{BarsDescending(n, Dollars(145), Dollars(139), Dollars(138)),
            BarsAscending(n, Dollars(145), Dollars(139), Dollars(138)),
            BarsDescending(n, Dollars(135), Dollars(149), Dollars(138)),
            BarsAscending(n, Dollars(135), Dollars(149), Dollars(138))} :
                n \in ChartLengths}
ChartAnswers ==
    {Transport, Timeout, Http(ErrorPayload), Http(EmptyBody)}
        \cup {Http(TimeSeriesBody(bars)) : bars \in ChartHistories}

CallGetChartData(symbol) ==
    /\ cpc = "idle"
    /\ cpc' = "waiting"
    /\ chartSym' = symbol
    /\ UNCHANGED <<chartUp, chartSeries, chartOut, detailVars, screenVars, pureVars>>

ChartTimeSeriesSettles ==
    /\ cpc = "waiting"
    /\ \E a \in ChartAnswers :
          /\ chartUp' = a
          /\ chartSeries' = getStockTimeSeries(a)
    /\ cpc' = "resumed"
    /\ UNCHANGED <<chartSym, chartOut, detailVars, screenVars, pureVars>>

GetChartDataReturns ==
    /\ cpc = "resumed"
    /\ chartOut' = getChartData(chartSeries)
    /\ cpc' = "returned"
    /\ UNCHANGED <<chartSym, chartUp, chartSeries, detailVars, screenVars, pureVars>>

----------------------------------------------------------------------------
(* One calculateSMA call on a series of its own *)

\* Values count 1/SmaUnit of a unit, so that the mean of up to MaxPeriod
\* whole values is exact.
RECURSIVE Factorial(_)
Factorial(n) == IF n <= 1 THEN 1 ELSE n * Factorial(n - 1)
SmaUnit == Factorial(MaxPeriod)
Whole(n) == Num(n * SmaUnit)

SeriesOfLength(n) == [1..n -> {Whole(c) : c \in 1..MaxClose}]
SmaSeries == UNION {SeriesOfLength(n) : n \in 0..MaxLen}

CallCalculateSMA ==
    /\ spc = "ready"
    /\ smaOut' = Arr(calculateSMA(smaPrices, smaPeriod))
    /\ spc' = "done"
    /\ UNCHANGED <<smaGiven, smaPrices, smaPeriod, scoreVars, cacheVars,
                   detailVars, screenVars, chartVars, otherVars>>

----------------------------------------------------------------------------
(* One calculateScore call on a stock of its own *)

\* The stocks handed to calculateScore: each optional field absent, not a
\* number, or a number on either side of (and on) the thresholds of its term.
ScorePercents == {undefined, NaN, Num(-5), Num(0), Num(5)}
ScoreVolumes == {undefined, Num(VOLUME_THRESHOLD), Num(VOLUME_THRESHOLD + 1)}
ScorePEs == {NaN, Num(-3), Num(0), Num(10), Num(PE_CEILING), Num(PE_CEILING + 5)}
ScoreGrowths == {undefined, Num(-4), Num(10)}
ScoreCaps ==
    {NaN, Num(MID_CAP), Num(MID_CAP + 1), Num(LARGE_CAP), Num(LARGE_CAP + 1)}
ScoreFundamentals ==
    {undefined}
        \cup [market_cap : ScoreCaps, pe_ratio : ScorePEs,
               quarterly_revenue_growth : ScoreGrowths,
               quarterly_eps_growth : ScoreGrowths]
ScoreStocks ==
    [symbol : {Str("AAPL")}, price_change_percent : ScorePercents,
     volume : ScoreVolumes, fundamentals : ScoreFundamentals]

CallCalculateScore ==
    /\ kpc = "ready"
    /\ scoreOut' = calculateScore(scoreStock)
    /\ kpc' = "done"
    /\ UNCHANGED <<scoreStock, smaVars, cacheVars, detailVars, screenVars,
                   chartVars, otherVars>>

----------------------------------------------------------------------------
(* getMarketMovers calls, one after another, while the clock advances *)

\* What is found stored under a key before the first call: nothing, a text
\* that is no JSON, or the JSON text null.
StoredBefore == {Null, Str("{\"data\":["), Json(Null)}

MoversAnswers ==
    {Transport, Timeout, Http(ErrorPayload), Http(EmptyBody),
     Http(MoversBody(<<MoverItem("NVDA", Dollars(900), 4),
                      MoverItem("AMD", Dollars(160), 3)>>)),
     Http(MoversBody(<<MoverItem("TSLA", Dollars(250), 6),
                      [symbol |-> Str("GME"), name |-> Str("GME")]>>))}

\* The clock advances by a millisecond or by a millisecond less than the
\* lifetime of an entry, at any point of a call or between calls.
Tick(d) ==
    /\ ticks < MaxTicks
    /\ now' = now + d
    /\ ticks' = ticks + 1
    /\ UNCHANGED <<storage, mpc, mmRead, cachedData, mmRequests, mmAnswer,
                   mmWrite, mmWrote, mmOut,
                   detailVars, screenVars, chartVars, smaVars, scoreVars,
                   otherVars>>

\* getMarketMovers is called: it calls getCachedData('market_movers'), which
\* calls AsyncStorage.getItem.
CallGetMarketMovers ==
    /\ mpc \in {"idle", "returned"}
    /\ mpc' = "reading"
    /\ mmRead' = Pending /\ cachedData' = Pending /\ mmRequests' = 0
    /\ mmAnswer' = Pending /\ mmWrite' = Pending /\ mmWrote' = ""
    /\ mmOut' = Pending
    /\ UNCHANGED <<now, ticks, storage,
                   detailVars, screenVars, chartVars, smaVars, scoreVars,
                   otherVars>>

\* getItem settles and getCachedData returns; on a hit getMarketMovers
\* returns the cached data, otherwise it issues its request.
CacheReadSettles ==
    /\ mpc = "reading"
    /\ \E read \in {StorageFailed, StorageGave(storage["market_movers"])} :
          LET got == getCachedData(read, now) IN
          /\ mmRead' = [at |-> now, stored |-> storage["market_movers"],
                        status |-> read.status]
          /\ cachedData' = got
          /\ IF Truthy(got)
             THEN /\ mmOut' = [data |-> got, success |-> TRUE]
                  /\ mpc' = "returned"
                  /\ UNCHANGED mmRequests
             ELSE /\ mmRequests' = mmRequests + 1
                  /\ mpc' = "requesting"
                  /\ UNCHANGED mmOut
    /\ UNCHANGED <<now, ticks, storage, mmAnswer, mmWrite, mmWrote,
                   detailVars, screenVars, chartVars, smaVars, scoreVars,
                   otherVars>>

\* The request settles: with a body, the movers are mapped and setCachedData
\* is called, which stamps the entry and calls AsyncStorage.setItem;
\* otherwise the response is returned as it is.
MoversRequestSettles ==
    /\ mpc = "requesting"
    /\ \E a \in MoversAnswers :
          LET response == makeRequest(a) IN
          /\ mmAnswer' = a
          /\ IF response.success /\ Truthy(Get(response, "data"))
             THEN /\ mmWrite' = stringifyEntry(moversOf(response.data), now)
                  /\ mpc' = "writing"
                  /\ UNCHANGED mmOut
             ELSE /\ mmOut' = response
                  /\ mpc' = "returned"
                  /\ UNCHANGED mmWrite
    /\ UNCHANGED <<now, ticks, storage, mmRead, cachedData, mmRequests, mmWrote,
                   detailVars, screenVars, chartVars, smaVars, scoreVars,
                   otherVars>>

\* setItem settles and getMarketMovers returns the movers it mapped.
CacheWriteSettles ==
    /\ mpc = "writing"
    /\ \E write \in {StorageFailed, StorageGave(undefined)} :
          /\ storage' = setCachedData(storage, "market_movers", mmWrite, write)
          /\ mmWrote' = IF write.status = "fulfilled" THEN "ok" ELSE "failed"
    /\ mmOut' = [data |-> moversOf(mmAnswer.body), success |-> TRUE]
    /\ mpc' = "returned"
    /\ UNCHANGED <<now, ticks, mmRead, cachedData, mmRequests, mmAnswer, mmWrite,
                   detailVars, screenVars, chartVars, smaVars, scoreVars,
                   otherVars>>

----------------------------------------------------------------------------
(* Concurrent getMarketMovers calls on the one cache (SpecRace) *)

\* The callers of getMarketMovers that can overlap: the mount effect of
\* useStocks and refreshData.
Callers == {"mount", "refresh"}

IdleCaller ==
    [pc |-> "idle", read |-> "", cachedData |-> Pending, write |-> Pending,
     wrote |-> "", out |-> Pending]

RaceAnswers ==
    {Timeout, Http(ErrorPayload),
     Http(MoversBody(<<MoverItem("NVDA", Dollars(900), 4)>>)),
     Http(MoversBody(<<MoverItem("TSLA", Dollars(250), 6)>>))}

\* A caller calls getMarketMovers, which calls getCachedData.
CallerCalls(c) ==
    /\ race[c].pc \in {"idle", "returned"}
    /\ race' = [race EXCEPT ![c] = [IdleCaller EXCEPT !.pc = "reading"]]
    /\ UNCHANGED <<lastWrite, lastWriter, hookVars, cacheVars,
                   detailVars, screenVars, chartVars, smaVars, scoreVars>>

\* The caller's getItem settles: a hit is returned, a miss is followed by the
\* upstream request.
CallerReadSettles(c) ==
    /\ race[c].pc = "reading"
    /\ \E read \in {StorageFailed, StorageGave(storage["market_movers"])} :
          LET got == getCachedData(read, now) IN
          race' = [race EXCEPT ![c] =
                     IF Truthy(got)
                     THEN [@ EXCEPT !.read = read.status, !.cachedData = got,
                                    !.out = [data |-> got, success |-> TRUE],
                                    !.pc = "returned"]
                     ELSE [@ EXCEPT !.read = read.status, !.cachedData = got,
                                    !.pc = "requesting"]]
    /\ UNCHANGED <<lastWrite, lastWriter, hookVars, cacheVars,
                   detailVars, screenVars, chartVars, smaVars, scoreVars>>

\* The caller's request settles: with a body, setCachedData stamps the entry
\* and calls setItem; otherwise the response is returned.
CallerRequestSettles(c) ==
    /\ race[c].pc = "requesting"
    /\ \E a \in RaceAnswers :
          LET response == makeRequest(a) IN
          race' = [race EXCEPT ![c] =
                     IF response.success /\ Truthy(Get(response, "data"))
                     THEN [@ EXCEPT !.write =
                                        stringifyEntry(moversOf(response.data), now),
                                    !.out = [data |-> moversOf(response.data),
                                             success |-> TRUE],
                                    !.pc = "writing"]
                     ELSE [@ EXCEPT !.out = response, !.pc = "returned"]]
    /\ UNCHANGED <<lastWrite, lastWriter, hookVars, cacheVars,
                   detailVars, screenVars, chartVars, smaVars, scoreVars>>

\* The caller's setItem settles and its getMarketMovers returns.
CallerWriteSettles(c) ==
    /\ race[c].pc = "writing"
    /\ \E write \in {StorageFailed, StorageGave(undefined)} :
          /\ storage' = setCachedData(storage, "market_movers", race[c].write, write)
          /\ race' = [race EXCEPT ![c].pc = "returned",
                                  ![c].wrote = IF write.status = "fulfilled"
                                               THEN "ok" ELSE "failed"]
          /\ IF write.status = "fulfilled"
             THEN lastWrite' = race[c].write /\ lastWriter' = c
             ELSE UNCHANGED <<lastWrite, lastWriter>>
    /\ UNCHANGED <<now, ticks, mpc, mmRead, cachedData, mmRequests, mmAnswer,
                   mmWrite, mmWrote, mmOut, hookVars,
                   detailVars, screenVars, chartVars, smaVars, scoreVars>>

----------------------------------------------------------------------------
(* The useStocks hook (SpecHook) *)

MoversLoads == {"mountMovers", "refreshMovers"}
StocksLoads == {"mountStocks", "refreshStocks"}
Loads == MoversLoads \cup StocksLoads
RefreshLoads == {"refreshMovers", "refreshStocks"}

\* What ApiService.getMarketMovers and ApiService.screenStocks can resolve to.
MoversResults ==
    {[data |-> moversOf(MoversBody(<<MoverItem("NVDA", Dollars(900), 4)>>)),
      success |-> TRUE],
     makeRequest(Timeout),
     makeRequest(Http(EmptyBody))}
StocksResults ==
    {[data |-> Arr(<<>>), success |-> TRUE],
     [data |-> Arr(<<[symbol |-> Str("AAPL")]>>), success |-> TRUE],
     [error |-> Str("Failed to screen stocks"), success |-> FALSE]}

\* useEffect on mount: loadMarketMovers and loadScreenedStocks each run up to
\* their await.
Mount ==
    /\ ~mounted
    /\ mounted' = TRUE
    /\ error' = Null
    /\ loading' = TRUE
    /\ inflight' = [inflight EXCEPT !["mountMovers"] = "awaiting",
                                    !["mountStocks"] = "awaiting"]
    /\ UNCHANGED <<refreshing, stocksState, marketMovers, raceVars, cacheVars,
                   detailVars, screenVars, chartVars, smaVars, scoreVars>>

\* refreshData is called (pull to refresh, or the retry button): both loads
\* run up to their await.
refreshData ==
    /\ mounted
    /\ \A l \in RefreshLoads : inflight[l] # "awaiting"
    /\ refreshing' = TRUE
    /\ error' = Null
    /\ loading' = TRUE
    /\ inflight' = [inflight EXCEPT !["refreshMovers"] = "awaiting",
                                    !["refreshStocks"] = "awaiting"]
    /\ UNCHANGED <<mounted, stocksState, marketMovers, raceVars, cacheVars,
                   detailVars, screenVars, chartVars, smaVars, scoreVars>>

\* refreshData resumes after Promise.all when both of its loads are done.
refreshingAfter(load, flights) ==
    IF load \in RefreshLoads /\ \A l \in RefreshLoads : flights[l] = "done"
    THEN FALSE ELSE refreshing

\* A loadMarketMovers call resumes with the response.
loadMarketMovers(load) ==
    /\ inflight[load] = "awaiting"
    /\ inflight' = [inflight EXCEPT ![load] = "done"]
    /\ \E response \in MoversResults :
          IF response.success /\ Truthy(Get(response, "data"))
          THEN marketMovers' = response.data /\ UNCHANGED error
          ELSE /\ error' = Or(Get(response, "error"),
                              Str("Failed to load market movers"))
               /\ UNCHANGED marketMovers
    /\ refreshing' = refreshingAfter(load, inflight')
    /\ UNCHANGED <<mounted, loading, stocksState, raceVars, cacheVars,
                   detailVars, screenVars, chartVars, smaVars, scoreVars>>

\* A loadScreenedStocks call resumes with the response and runs to its end.
loadScreenedStocks(load) ==
    /\ inflight[load] = "awaiting"
    /\ inflight' = [inflight EXCEPT ![load] = "done"]
    /\ \E response \in StocksResults :
          IF response.success /\ Truthy(Get(response, "data"))
          THEN stocksState' = response.data /\ UNCHANGED error
          ELSE /\ error' = Or(Get(response, "error"),
                              Str("Failed to screen stocks"))
               /\ UNCHANGED stocksState
    /\ loading' = FALSE
    /\ refreshing' = refreshingAfter(load, inflight')
    /\ UNCHANGED <<mounted, marketMovers, raceVars, cacheVars,
                   detailVars, screenVars, chartVars, smaVars, scoreVars>>

----------------------------------------------------------------------------
(* Specifications *)

\* No call in flight.
NoDetailsCall ==
    /\ dpc = "idle" /\ dsym = "" /\ up = <<>> /\ sub = <<>>
    /\ detailsOut = Pending
    /\ requests = [e \in Endpoints |-> 0] /\ dorder = <<>>
NoScreenCall ==
    /\ pc = "idle" /\ issued = {} /\ settled = <<>> /\ upstream = <<>>
    /\ arrival = <<>>
    /\ screenOut = Pending
NoChartCall ==
    /\ cpc = "idle" /\ chartSym = "" /\ chartUp = Pending /\ chartSeries = Pending
    /\ chartOut = Pending
NoSMACall ==
    /\ spc = "none" /\ smaGiven = <<>> /\ smaPrices = <<>> /\ smaPeriod = 1
    /\ smaOut = Pending
NoScoreCall ==
    /\ kpc = "none" /\ scoreStock = undefined /\ scoreOut = Pending
NoMoversCall ==
    /\ mpc = "idle" /\ now = 0 /\ ticks = 0
    /\ mmRead = Pending /\ cachedData = Pending /\ mmRequests = 0
    /\ mmAnswer = Pending /\ mmWrite = Pending /\ mmWrote = "" /\ mmOut = Pending
EmptyStorage == storage = [key \in CacheKeys |-> Null]
NoRaceCall ==
    /\ race = [c \in Callers |-> IdleCaller]
    /\ lastWrite = Pending /\ lastWriter = ""
Unmounted ==
    /\ mounted = FALSE /\ inflight = [l \in Loads |-> "none"]
    /\ loading = FALSE /\ refreshing = FALSE /\ error = Null
    /\ stocksState = Arr(<<>>) /\ marketMovers = Arr(<<>>)

Init ==
    /\ NoDetailsCall /\ NoScreenCall /\ NoChartCall
    /\ NoSMACall /\ NoScoreCall
    /\ NoMoversCall /\ NoRaceCall /\ Unmounted /\ EmptyStorage

Next ==
    \/ CallScreenStocks
    \/ \E i \in DOMAIN settled : DetailsSettles(i)
    \/ ScreenStocksReturns

Spec == Init /\ [][Next]_vars

NextDetails ==
    \/ \E symbol \in {symbols[1], symbols[2]} : CallGetStockDetails(symbol)
    \/ QuoteSettles
    \/ FundamentalsSettles
    \/ TimeSeriesSettles
    \/ GetStockDetailsReturns

SpecDetails == Init /\ [][NextDetails]_vars

NextChart ==
    \/ \E symbol \in {symbols[1], symbols[2]} : CallGetChartData(symbol)
    \/ ChartTimeSeriesSettles
    \/ GetChartDataReturns

SpecChart == Init /\ [][NextChart]_vars

InitSMA ==
    /\ NoDetailsCall /\ NoScreenCall /\ NoChartCall /\ NoScoreCall
    /\ NoMoversCall /\ NoRaceCall /\ Unmounted /\ EmptyStorage
    /\ spc = "ready"
    /\ smaPrices \in SmaSeries
    /\ smaGiven = smaPrices
    /\ smaPeriod \in 1..MaxPeriod
    /\ smaOut = Pending

NextSMA == CallCalculateSMA

SpecSMA == InitSMA /\ [][NextSMA]_vars

InitScore ==
    /\ NoDetailsCall /\ NoScreenCall /\ NoChartCall /\ NoSMACall
    /\ NoMoversCall /\ NoRaceCall /\ Unmounted /\ EmptyStorage
    /\ kpc = "ready"
    /\ scoreStock \in ScoreStocks
    /\ scoreOut = Pending

NextScore == CallCalculateScore

SpecScore == InitScore /\ [][NextScore]_vars

InitCache ==
    /\ NoDetailsCall /\ NoScreenCall /\ NoChartCall /\ NoSMACall /\ NoScoreCall
    /\ NoMoversCall /\ NoRaceCall /\ Unmounted
    /\ storage \in [CacheKeys -> StoredBefore]

NextCache ==
    \/ \E d \in {1, CACHE_DURATION - 1} : Tick(d)
    \/ CallGetMarketMovers
    \/ CacheReadSettles
    \/ MoversRequestSettles
    \/ CacheWriteSettles

SpecCache == InitCache /\ [][NextCache]_vars

NextRace ==
    \/ \E d \in {1, CACHE_DURATION - 1} : ticks < MaxRaceTicks /\ Tick(d)
    \/ \E c \in Callers : CallerCalls(c)
    \/ \E c \in Callers : CallerReadSettles(c)
    \/ \E c \in Callers : CallerRequestSettles(c)
    \/ \E c \in Callers : CallerWriteSettles(c)

SpecRace == Init /\ [][NextRace]_vars

NextHook ==
    \/ Mount
    \/ refreshData
    \/ \E load \in MoversLoads : loadMarketMovers(load)
    \/ \E load \in StocksLoads : loadScreenedStocks(load)

SpecHook == Init /\ [][NextHook]_vars

----------------------------------------------------------------------------
(* Claims about one getStockDetails call (SpecDetails) *)

Returned == dpc = "returned"
QuoteFailed == ~sub["quote"].success
Failed(c) == ~sub[c].success
Absent(o, f) == Get(o, f) = undefined

\* C1: if the quote sub-call fails, getStockDetails returns a failure
\* (success = false, no data), whatever the other two sub-calls returned.
C1_QuoteFailureFailsAll ==
    (Returned /\ QuoteFailed) =>
        /\ detailsOut.success = FALSE
        /\ Absent(detailsOut, "data")

C1_Witness ==
    /\ Returned /\ QuoteFailed
    /\ sub["fundamentals"].success /\ sub["timeSeries"].success
    /\ IsArray(Get(sub["timeSeries"], "data"))

\* C2: if the quote sub-call succeeds, getStockDetails succeeds whatever the
\* other two returned; a failed fundamentals sub-call leaves fundamentals
\* absent, a failed time-series sub-call leaves price_history absent, and
\* every field of the quote is carried over unchanged.
C2_PartialResult ==
    (Returned /\ sub["quote"].success) =>
        /\ detailsOut.success = TRUE
        /\ Failed("fundamentals") => Absent(Get(detailsOut, "data"), "fundamentals")
        /\ Failed("timeSeries") => Absent(Get(detailsOut, "data"), "price_history")
        /\ LET quote == Get(sub["quote"], "data") IN
           ~IsPrimitive(quote) =>
               \A f \in DOMAIN quote : Get(detailsOut.data, f) = quote[f]

C2_Witness ==
    /\ Returned /\ sub["quote"].success
    /\ ~IsPrimitive(Get(sub["quote"], "data"))
    /\ IsNumber(sub["quote"].data.current_price)
    /\ Failed("fundamentals") /\ Failed("timeSeries")

\* C3 (as claimed): with fundamentals failed, quote and time series
\* succeeded, getStockDetails yields fundamentals absent and a
\* screening_result that is present exactly when there are at least 200 bars.
C3_ScreeningResultAttached ==
    (/\ Returned
     /\ sub["quote"].success /\ ~IsPrimitive(Get(sub["quote"], "data"))
     /\ Failed("fundamentals")
     /\ sub["timeSeries"].success /\ IsArray(Get(sub["timeSeries"], "data")))
    =>
        /\ Absent(detailsOut.data, "fundamentals")
        /\ (Length(sub["timeSeries"].data.v) >= MIN_HISTORY)
             <=> ~Absent(detailsOut.data, "screening_result")

IsUpstreamError(answer) == answer \in {Transport, Timeout, Http(ErrorPayload)}
ReportsFailure(response) == ~response.success /\ Absent(response, "data")

\* C4 (as claimed): a transport error, a timeout and an error payload in an
\* ordinary response each make the lookup (quote, time series, profile)
\* report success = false, with no data record.
C4_ErrorsAreFailures ==
    /\ (dpc # "idle" /\ sub["quote"] # Pending /\ IsUpstreamError(up["quote"]))
            => ReportsFailure(sub["quote"])
    /\ (dpc # "idle" /\ sub["timeSeries"] # Pending
            /\ IsUpstreamError(up["time_series"]))
            => ReportsFailure(sub["timeSeries"])
    /\ (dpc # "idle" /\ sub["fundamentals"] # Pending
            /\ IsUpstreamError(up["profile"]))
            => ReportsFailure(sub["fundamentals"])

\* C23 (as claimed): getStockDetails resolves either to success = true with
\* a stock record in data, or to success = false with a message in error and
\* no data.
C23_RecordOrFailure ==
    Returned =>
        \/ /\ detailsOut.success
           /\ ~IsPrimitive(Get(detailsOut, "data"))
           /\ Absent(detailsOut, "error")
        \/ /\ ~detailsOut.success
           /\ Truthy(Get(detailsOut, "error"))
           /\ Absent(detailsOut, "data")

\* C24: no endpoint is requested more than once in a call, and a sub-call
\* that has settled, like the call itself once it has resolved, keeps its
\* outcome.
C24_NoRetry ==
    [][/\ \A e \in Endpoints : requests'[e] <= 1
       /\ \A c \in DOMAIN sub :
             sub[c] # Pending => (c \in DOMAIN sub' /\ sub'[c] = sub[c])
       /\ detailsOut # Pending => detailsOut' = detailsOut]_vars

C24_Witness ==
    /\ Returned /\ QuoteFailed /\ Failed("fundamentals") /\ Failed("timeSeries")
    /\ \A e \in Endpoints : requests[e] = 1

\* C25: every request of the three sub-calls has been sent when the call
\* first waits; the call resolves only when the three have settled; and what
\* it resolves to is fixed by the answers, whatever the order of settling.
C25_AllStartedAllAwaited ==
    /\ dpc = "waiting" => \A e \in Endpoints : requests[e] = 1
    /\ Returned => \A c \in SubCalls : sub[c] # Pending
    /\ Returned => Len(dorder) = 3
    /\ Returned =>
          detailsOut = detailsOf(Case(up["quote"], up["profile"], up["earnings"],
                                      up["growth_estimates"], up["time_series"]))

C25_Witness ==
    /\ Returned /\ dorder = <<"timeSeries", "fundamentals", "quote">>
    /\ detailsOut.success
    /\ ~Absent(detailsOut.data, "fundamentals")
    /\ ~Absent(detailsOut.data, "price_history")

FundamentalsSettled == dpc # "idle" /\ sub["fundamentals"] # Pending
RequestFailed(e) == ~makeRequest(up[e]).success

----------------------------------------------------------------------------
(* Claims about one screenStocks call (Spec) *)

Done == pc = "done"
Output == screenOut.data.v
AggregationFailed(i) == ~settled[i].value.success
InOutput(i) == \E k \in DOMAIN Output : Output[k].symbol = Str(Universe[i])
IndexOf(stock) == CHOOSE i \in DOMAIN Universe : Str(Universe[i]) = stock.symbol
ScoreOf(stock) == stock.screening_result.score.v

\* C5: failed aggregations never make screenStocks fail, and whether another
\* symbol is in the output, and with which record and score, is decided by
\* that symbol's own outcome alone.
C5_FailuresIsolated ==
    Done =>
        /\ screenOut.success = TRUE
        /\ \A i \in DOMAIN settled :
              LET own == screenOne(settled[i]) IN
              IF AggregationFailed(i) \/ own = undefined
              THEN ~InOutput(i)
              ELSE \E k \in DOMAIN Output : Output[k] = own
        /\ \A k \in DOMAIN Output :
              Output[k] = screenOne(settled[IndexOf(Output[k])])
        /\ \A k, l \in DOMAIN Output : Output[k] = Output[l] => k = l

C5_Witness ==
    /\ Done
    /\ \E i, j \in DOMAIN settled :
          i < j /\ AggregationFailed(i) /\ InOutput(j)

\* The sum of the last p of a stock's closes, and the screening rule stated on
\* those sums: price > S200/200, S50/50 > S200/200, S100/100 > S200/200.
RECURSIVE SumRange(_, _, _)
SumRange(closes, lo, hi) ==
    IF lo = hi THEN closes[lo].v
    ELSE SumRange(closes, lo, (lo + hi) \div 2)
            + SumRange(closes, (lo + hi) \div 2 + 1, hi)
SumOfLast(stock, p) ==
    LET history == stock.price_history.v
        closes == [k \in 1..Length(history) |-> history[k].close]
    IN  SumRange(closes, Length(history) - p + 1, Length(history))
MeetsRule(stock) ==
    LET s200 == SumOfLast(stock, 200) IN
    /\ IsNumber(stock.current_price)
    /\ stock.current_price.v * 200 > s200
    /\ SumOfLast(stock, 50) * 4 > s200
    /\ SumOfLast(stock, 100) * 2 > s200
FullyAggregated(i) ==
    /\ settled[i].value.success
    /\ ~IsPrimitive(Get(settled[i].value, "data"))
    /\ IsArray(settled[i].value.data.price_history)
    /\ Length(settled[i].value.data.price_history.v) >= 200

C7_SortedByScore ==
    Done =>
        \A k \in DOMAIN Output :
            k + 1 \in DOMAIN Output => ScoreOf(Output[k]) >= ScoreOf(Output[k + 1])

C7_Witness ==
    /\ Done /\ Len(Output) >= 2
    /\ ScoreOf(Output[1]) > ScoreOf(Output[2])
    /\ IndexOf(Output[1]) > IndexOf(Output[2])

\* C8: the output does not depend on the order in which the aggregations
\* completed: it lists its records by score, highest first, and records of
\* equal score in the order of the universe, which fixes the list.
C8_OrderIsDetermined ==
    Done =>
        \A k \in DOMAIN Output :
            k + 1 \in DOMAIN Output =>
                \/ ScoreOf(Output[k]) > ScoreOf(Output[k + 1])
                \/ /\ ScoreOf(Output[k]) = ScoreOf(Output[k + 1])
                   /\ IndexOf(Output[k]) < IndexOf(Output[k + 1])

C8_Witness ==
    /\ Done /\ Len(Output) >= 2
    /\ ScoreOf(Output[1]) = ScoreOf(Output[2])
    /\ arrival[1] > arrival[2]

C10_FailureIffAllFailed ==
    Done =>
        ((~screenOut.success /\ Truthy(Get(screenOut, "error")))
            <=> \A i \in DOMAIN settled : AggregationFailed(i))

\* The closes of the p most recent bars of a history, whatever the order of
\* the array: the bars dated after day (latest - p).  The model's bars are
\* dated by consecutive day numbers.
RECURSIVE LatestDay(_, _, _)
LatestDay(history, lo, hi) ==
    IF lo = hi THEN history[lo].date.v
    ELSE LET left == LatestDay(history, lo, (lo + hi) \div 2)
             right == LatestDay(history, (lo + hi) \div 2 + 1, hi)
         IN  IF left > right THEN left ELSE right
RECURSIVE SumSince(_, _, _, _)
SumSince(history, lo, hi, day) ==
    IF lo = hi
    THEN IF history[lo].date.v > day THEN history[lo].close.v ELSE 0
    ELSE SumSince(history, lo, (lo + hi) \div 2, day)
            + SumSince(history, (lo + hi) \div 2 + 1, hi, day)
SumOfMostRecent(history, p) ==
    SumSince(history, 1, Length(history), LatestDay(history, 1, Length(history)) - p)
MeetsRuleOnMostRecent(stock) ==
    LET s200 == SumOfMostRecent(stock.price_history.v, 200) IN
    /\ IsNumber(stock.current_price)
    /\ stock.current_price.v * 200 > s200
    /\ SumOfMostRecent(stock.price_history.v, 50) * 4 > s200
    /\ SumOfMostRecent(stock.price_history.v, 100) * 2 > s200

\* C11 (as claimed): whatever the order in which the upstream delivers the
\* bars, the SMA50, SMA100 and SMA200 a batch screen compares and stores are
\* the means of the 50, 100 and 200 most recent closes, and the history the
\* record holds is the array as it was aggregated.
C11_SmaOfMostRecentCloses ==
    Done =>
        /\ \A i \in DOMAIN settled :
              FullyAggregated(i) =>
                  (InOutput(i) <=> MeetsRuleOnMostRecent(settled[i].value.data))
        /\ \A k \in DOMAIN Output :
              LET r == Output[k].screening_result
                  history == Output[k].price_history.v
              IN  /\ r.sma50.v * 50 = SumOfMostRecent(history, 50)
                  /\ r.sma100.v * 100 = SumOfMostRecent(history, 100)
                  /\ r.sma200.v * 200 = SumOfMostRecent(history, 200)
                  /\ Output[k].price_history
                        = settled[IndexOf(Output[k])].value.data.price_history

\* the aggregation of symbol i succeeded with fewer than 200 bars, or none
LacksFullHistory(i) ==
    /\ settled[i].value.success
    /\ ~IsPrimitive(Get(settled[i].value, "data"))
    /\ ~HasFullHistory(Get(settled[i].value.data, "price_history"))

\* C21: a record of the output carries a screening result and a history of
\* at least 200 bars; a symbol aggregated with a shorter history, or none, is
\* not in the output; and a symbol whose quote lookup succeeded was
\* aggregated successfully whatever its history.
C21_ResultNeedsFullHistory ==
    /\ Done =>
          /\ \A k \in DOMAIN Output :
                /\ Get(Output[k], "screening_result") # undefined
                /\ IsArray(Get(Output[k], "price_history"))
                /\ Length(Output[k].price_history.v) >= 200
          /\ \A i \in DOMAIN settled : LacksFullHistory(i) => ~InOutput(i)
    /\ \A i \in DOMAIN settled :
          (settled[i] # Pending /\ getStockQuote(upstream[i].quote).success)
              => settled[i].value.success

C21_Witness ==
    /\ Done
    /\ \E i, j \in DOMAIN settled :
          /\ upstream[i].time_series = Http(TimeSeriesBody(ShortAscending))
          /\ LacksFullHistory(i) /\ ~InOutput(i)
          /\ InOutput(j)

\* the upstream answered with a body in which the field is the number 0
SuppliedZero(answer, field) ==
    /\ answer.kind = "http"
    /\ ToNumber(Get(answer.body, field)) = Num(0)
\* every bar the upstream sent carries a close that is a number
SuppliedCloses(answer) ==
    /\ answer.kind = "http" /\ IsArray(Get(answer.body, "values"))
    /\ \A k \in 1..Length(answer.body.values.v) :
          IsNumber(ToNumber(Get(answer.body.values.v[k], "close")))
\* the fields of the Fundamentals record with the request and the upstream
\* field each is read from
FundamentalsSources ==
    {<<"market_cap", "profile", "market_cap">>,
     <<"pe_ratio", "profile", "pe_ratio">>,
     <<"price_to_book", "profile", "price_to_book">>,
     <<"eps", "profile", "eps">>,
     <<"dividend_yield", "profile", "dividend_yield">>,
     <<"beta", "profile", "beta">>,
     <<"quarterly_revenue_growth", "earnings", "quarterly_revenue_growth">>,
     <<"quarterly_eps_growth", "earnings", "quarterly_eps_growth">>,
     <<"estimated_sales_growth", "growth_estimates", "sales_growth">>,
     <<"estimated_eps_growth", "growth_estimates", "eps_growth">>}
HasFundamentals(i) ==
    /\ settled[i] # Pending /\ settled[i].value.success
    /\ ~IsPrimitive(Get(settled[i].value, "data"))
    /\ ~IsPrimitive(Get(settled[i].value.data, "fundamentals"))

\* C22: a field of a Fundamentals record is 0 only if the upstream supplied 0
\* for it, and so is the current price a screening result records; an SMA
\* it records is 0 only over closes the upstream all supplied.
C22_AbsentIsNeverZero ==
    /\ \A i \in DOMAIN settled :
          HasFundamentals(i) =>
              \A src \in FundamentalsSources :
                  settled[i].value.data.fundamentals[src[1]] = Num(0)
                      => SuppliedZero(upstream[i][src[2]], src[3])
    /\ Done =>
          \A k \in DOMAIN Output :
              LET r == Output[k].screening_result
                  case == upstream[IndexOf(Output[k])]
              IN  /\ r.current_price = Num(0) => SuppliedZero(case.quote, "close")
                  /\ \A f \in {"sma50", "sma100", "sma200"} :
                        r[f] = Num(0) => SuppliedCloses(case.time_series)

C22_Witness ==
    /\ Done
    /\ \E i, j \in DOMAIN settled :
          /\ HasFundamentals(i)
          /\ settled[i].value.data.fundamentals.pe_ratio = NaN
          /\ settled[i].value.data.fundamentals.quarterly_eps_growth = undefined
          /\ settled[i].value.data.current_price = NaN
          /\ FullyAggregated(i) /\ ~InOutput(i)
          /\ InOutput(j)

----------------------------------------------------------------------------
(* Claims about one getChartData call (SpecChart) *)

ChartReturned == cpc = "returned"
Chart == chartOut.value.data
\* the bars the upstream sent, when it sent bars
ChartBars == chartUp.body.values.v
SentBars ==
    /\ chartUp # Pending /\ chartUp.kind = "http"
    /\ IsArray(Get(chartUp.body, "values"))
SentDescending ==
    /\ SentBars
    /\ \A k \in 1..(Length(ChartBars) - 1) :
          ChartBars[k].datetime.v > ChartBars[k + 1].datetime.v

\* C12: when the upstream sends its bars most recent first, getChartData
\* returns dates in ascending order, dates and prices of the length of the
\* history, and at every index the date and the close of one same bar.
C12_ChartAscending ==
    (ChartReturned /\ SentDescending) =>
        /\ chartOut.status = "fulfilled" /\ chartOut.value.success
        /\ Length(Chart.dates.v) = Length(ChartBars)
        /\ Length(Chart.prices.v) = Length(ChartBars)
        /\ \A i \in 1..(Length(Chart.dates.v) - 1) :
              Chart.dates.v[i].v < Chart.dates.v[i + 1].v
        /\ \A i \in 1..Length(Chart.dates.v) :
              \E k \in 1..Length(ChartBars) :
                  /\ ChartBars[k].datetime = Chart.dates.v[i]
                  /\ ChartBars[k].close.v = Chart.prices.v[i].v

C12_Witness ==
    /\ ChartReturned /\ SentDescending
    /\ Length(ChartBars) = OUTPUT_SIZE
    /\ Chart.prices.v[1] # Chart.prices.v[OUTPUT_SIZE]

\* the overlay of one period over the prices returned
OverlayAligned(overlay, prices, p) ==
    /\ Length(overlay) = (IF Length(prices) >= p THEN Length(prices) - p + 1 ELSE 0)
    /\ \A j \in 1..Length(overlay) :
          overlay[j].v * p = SumRange(prices, j, j + p - 1)

\* C13: every overlay getChartData returns is taken over the prices it
\* returns: element i of the overlay of period p is the mean of prices
\* i .. i+p-1, and the overlay is empty when there are fewer than p prices.
C13_OverlaysOverReturnedPrices ==
    (ChartReturned /\ SentBars) =>
        /\ chartOut.status = "fulfilled" /\ chartOut.value.success
        /\ OverlayAligned(Chart.sma50.v, Chart.prices.v, 50)
        /\ OverlayAligned(Chart.sma100.v, Chart.prices.v, 100)
        /\ OverlayAligned(Chart.sma200.v, Chart.prices.v, 200)

C13_Witness ==
    /\ ChartReturned /\ SentDescending
    /\ Length(Chart.sma50.v) = 150 /\ Length(Chart.sma100.v) = 100
    /\ Length(Chart.sma200.v) = 0
    /\ Chart.sma50.v[1] # Chart.sma50.v[150]

\* C29 (as claimed): getChartData never rejects, and whenever the lookup
\* brought no bars it resolves to a failure with the error
\* 'Failed to get chart data'.
C29_NeverRejects ==
    ChartReturned =>
        /\ chartOut.status = "fulfilled"
        /\ ~SentBars =>
              /\ ~chartOut.value.success
              /\ Get(chartOut.value, "error") = Str("Failed to get chart data")

----------------------------------------------------------------------------
(* Claims about calculateSMA (SpecSMA) *)

SmaDone == spc = "done"

\* C14: for a series shorter than the period, the empty series included,
\* calculateSMA returns the empty array, and the series is as it was given.
C14_ShortSeriesGivesEmpty ==
    (SmaDone /\ Length(smaGiven) < smaPeriod) =>
        /\ smaOut = Arr(<<>>)
        /\ smaPrices = smaGiven

C14_Witness ==
    /\ SmaDone /\ smaOut = Arr(<<>>)
    /\ Length(smaGiven) = MaxPeriod - 1 /\ smaPeriod = MaxPeriod

\* C15: for a series of n >= p values calculateSMA returns n - p + 1 values,
\* the i-th of them the arithmetic mean of values i .. i+p-1 of the series.
C15_WindowMeans ==
    (SmaDone /\ Length(smaGiven) >= smaPeriod) =>
        /\ Length(smaOut.v) = Length(smaGiven) - smaPeriod + 1
        /\ \A j \in 1..Length(smaOut.v) :
              /\ IsNumber(smaOut.v[j])
              /\ smaOut.v[j].v * smaPeriod = SumRange(smaGiven, j, j + smaPeriod - 1)

\* [1, 2, 3, 4, 5] with period 3 gives [2, 3, 4]
C15_Witness ==
    /\ SmaDone
    /\ smaGiven = <<Whole(1), Whole(2), Whole(3), Whole(4), Whole(5)>>
    /\ smaPeriod = 3
    /\ smaOut = Arr(<<Whole(2), Whole(3), Whole(4)>>)

----------------------------------------------------------------------------
(* Claims about calculateScore (SpecScore) *)

ScoreDone == kpc = "done"
\* a field that holds a number, and its value
Has(o, f) == IsNumber(Get(o, f))
Val(o, f) == Get(o, f).v
AllOptionalAbsent(stock) ==
    /\ ~Has(stock, "price_change_percent") /\ ~Has(stock, "volume")
    /\ Get(stock, "fundamentals") = undefined

\* C19: calculateScore returns a number that is never negative, and exactly 0
\* for a stock without percent change, volume and fundamentals.
C19_ScoreNeverNegative ==
    ScoreDone =>
        /\ IsNumber(scoreOut) /\ scoreOut.v >= 0
        /\ AllOptionalAbsent(scoreStock) => scoreOut.v = 0

C19_Witness ==
    /\ ScoreDone /\ scoreOut.v = 0
    /\ Has(scoreStock, "price_change_percent")
    /\ Val(scoreStock, "price_change_percent") < 0
    /\ Has(scoreStock.fundamentals, "quarterly_revenue_growth")
    /\ Val(scoreStock.fundamentals, "quarterly_revenue_growth") < 0

\* The terms of the score as the claim states them, in tenths of a point.
MomentumTerm(stock) ==
    IF Has(stock, "price_change_percent") /\ Val(stock, "price_change_percent") > 0
    THEN 2 * Val(stock, "price_change_percent") ELSE 0
LiquidityTerm(stock) ==
    IF Has(stock, "volume") /\ Val(stock, "volume") > 1000000 THEN 100 ELSE 0
ValuationTerm(f) ==
    IF Has(f, "pe_ratio") /\ 0 < Val(f, "pe_ratio") /\ Val(f, "pe_ratio") < 25
    THEN (25 - Val(f, "pe_ratio")) * 20 ELSE 0
GrowthTerm(f, field) ==
    IF Has(f, field) /\ Val(f, field) > 0 THEN 3 * Val(f, field) ELSE 0
ScaleTerm(f) ==
    IF Has(f, "market_cap") /\ Val(f, "market_cap") > 10000 THEN 200
    ELSE IF Has(f, "market_cap") /\ Val(f, "market_cap") > 2000 THEN 100
    ELSE 0

\* C20: the score is the sum of the momentum, liquidity, valuation, revenue
\* growth, EPS growth and scale terms, each applied on its own condition.
C20_ScoreIsSumOfTerms ==
    ScoreDone =>
        LET f == Get(scoreStock, "fundamentals") IN
        scoreOut = Num(MomentumTerm(scoreStock) + LiquidityTerm(scoreStock)
                       + ValuationTerm(f)
                       + GrowthTerm(f, "quarterly_revenue_growth")
                       + GrowthTerm(f, "quarterly_eps_growth")
                       + ScaleTerm(f))

C20_Witness ==
    /\ ScoreDone
    /\ Has(scoreStock, "price_change_percent")
    /\ Val(scoreStock, "price_change_percent") > 0
    /\ Has(scoreStock, "volume") /\ Val(scoreStock, "volume") > 1000000
    /\ Has(scoreStock.fundamentals, "pe_ratio")
    /\ Val(scoreStock.fundamentals, "pe_ratio") = 10
    /\ Has(scoreStock.fundamentals, "market_cap")
    /\ Val(scoreStock.fundamentals, "market_cap") = 10000
    /\ Has(scoreStock.fundamentals, "quarterly_eps_growth")
    /\ Val(scoreStock.fundamentals, "quarterly_eps_growth") > 0
    /\ scoreOut = Num(10 + 100 + 300 + 30 + 100)

----------------------------------------------------------------------------
(* Claims about the cache and getMarketMovers (SpecCache) *)

ReadDone == mmRead # Pending
MoversReturned == mpc = "returned"
\* the read found an entry setCachedData had written, T its timestamp
FoundEntry ==
    /\ ReadDone /\ mmRead.status = "fulfilled"
    /\ Parses(mmRead.stored) /\ ~IsPrimitive(parse(mmRead.stored))
EntryRead == parse(mmRead.stored)
Age == mmRead.at - EntryRead.timestamp.v
\* the read failed, or found a text that cannot be decoded into an entry
ReadFailedOrUndecodable ==
    /\ ReadDone
    /\ \/ mmRead.status = "rejected"
       \/ /\ Truthy(mmRead.stored)
          /\ ~Parses(mmRead.stored) \/ IsPrimitive(parse(mmRead.stored))
\* what getMarketMovers makes of an upstream answer when it does not cache
LiveResult(answer) ==
    LET response == makeRequest(answer) IN
    IF response.success /\ Truthy(Get(response, "data"))
    THEN [data |-> moversOf(response.data), success |-> TRUE]
    ELSE response

\* C16: an entry stamped T is returned by a read at t when t - T is below
\* CACHE_DURATION, and is a miss, followed by an upstream request, when
\* t - T is CACHE_DURATION or more.
C16_FreshUntilTTL ==
    FoundEntry =>
        IF Age < CACHE_DURATION
        THEN cachedData = EntryRead.data /\ mmRequests = 0
        ELSE cachedData = Null /\ mmRequests = 1

C16_Witness ==
    /\ FoundEntry /\ Age = CACHE_DURATION - 1
    /\ cachedData = EntryRead.data /\ Length(cachedData.v) = 2

\* reads the specification reaches on the other side of the boundary
C16_MissAtTTL == FoundEntry /\ Age = CACHE_DURATION /\ mmRequests = 1
C16_MissAfterTTL == FoundEntry /\ Age = CACHE_DURATION + 1 /\ mmRequests = 1

\* C17: a failed storage read and an entry that cannot be decoded are a miss;
\* after them, and after a failed storage write, getMarketMovers returns
\* what the upstream answered.
C17_StorageFailuresDegrade ==
    /\ ReadFailedOrUndecodable => (cachedData = Null /\ mmRequests = 1)
    /\ (MoversReturned /\ (ReadFailedOrUndecodable \/ mmWrote = "failed")) =>
            /\ mmAnswer # Pending
            /\ mmOut = LiveResult(mmAnswer)

C17_Witness ==
    /\ MoversReturned
    /\ mmRead.status = "rejected" /\ Parses(mmRead.stored)
    /\ mmWrote = "failed"
    /\ mmOut.success /\ Length(mmOut.data.v) = 2

\* C18: the cache is read before any request; a fresh entry is returned
\* without a request; after a miss and an upstream response with a body, the
\* list returned has been written under 'market_movers' before the return.
C18_CacheFirstThenWriteBack ==
    /\ mmRequests > 0 => (ReadDone /\ ~Truthy(cachedData))
    /\ (FoundEntry /\ Age < CACHE_DURATION) =>
            /\ MoversReturned
            /\ mmOut = [data |-> EntryRead.data, success |-> TRUE]
            /\ mmRequests = 0 /\ mmAnswer = Pending /\ mmWrite = Pending
    /\ (MoversReturned /\ mmAnswer # Pending
            /\ makeRequest(mmAnswer).success
            /\ Truthy(Get(makeRequest(mmAnswer), "data"))) =>
            /\ mmOut = [data |-> moversOf(mmAnswer.body), success |-> TRUE]
            /\ mmWrite # Pending
            /\ parse(mmWrite).data = jsonList(mmOut.data)
            /\ mmWrote \in {"ok", "failed"}
            /\ mmWrote = "ok" => storage["market_movers"] = mmWrite

C18_Witness ==
    /\ MoversReturned /\ mmRequests = 1
    /\ FoundEntry /\ Age >= CACHE_DURATION
    /\ mmWrote = "ok" /\ storage["market_movers"] = mmWrite
    /\ Length(mmOut.data.v) = 2
    /\ mmOut.data # EntryRead.data

\* the upstream answered with a body that carries a list of movers
SentMovers ==
    /\ mmAnswer # Pending /\ mmAnswer.kind = "http"
    /\ IsArray(Get(mmAnswer.body, "values"))

\* C27 (as claimed): getMarketMovers writes to the cache only when the
\* upstream answered with a list of movers; a transport error or a body
\* without `values` leaves the cache alone.
C27_OnlyMoversCached ==
    mpc = "writing" => SentMovers

----------------------------------------------------------------------------
(* Claims about concurrent getMarketMovers calls (SpecRace) *)

Stored == storage["market_movers"]
Finished(c) == race[c].pc \in {"idle", "returned"}
\* the text is an entry as setCachedData writes them: a list and a time
WholeEntry(text) ==
    /\ Parses(text) /\ ~IsPrimitive(parse(text))
    /\ IsArray(Get(parse(text), "data"))
    /\ IsNumber(Get(parse(text), "timestamp"))
FreshAt(text, time) == time - parse(text).timestamp.v < CACHE_DURATION

\* C26: whatever the interleaving of two getMarketMovers calls, what is
\* stored under 'market_movers' after a write is the whole entry of the write
\* that completed last, also once both calls have finished, and a read that
\* succeeds while that entry is fresh returns its payload.
C26_LastWriterWins ==
    /\ [](lastWrite # Pending =>
            /\ Stored = lastWrite
            /\ WholeEntry(Stored)
            /\ (\A c \in Callers : Finished(c)) =>
                  (race[lastWriter].wrote = "ok" =>
                        Stored = race[lastWriter].write))
    /\ [][\A c \in Callers :
            (/\ race[c].pc = "reading" /\ race'[c].pc # "reading"
             /\ race'[c].read = "fulfilled"
             /\ lastWrite # Pending /\ FreshAt(lastWrite, now)) =>
                /\ race'[c].pc = "returned"
                /\ race'[c].out = [data |-> parse(lastWrite).data,
                                   success |-> TRUE]]_vars

C26_Witness ==
    /\ \A c \in Callers : race[c].pc = "returned" /\ race[c].wrote = "ok"
    /\ race["mount"].write # race["refresh"].write
    /\ parse(race["mount"].write).data # parse(race["refresh"].write).data
    /\ lastWriter = "mount" /\ Stored = race["mount"].write

\* a later call served from the cache what the other caller wrote last
C26_LaterHit ==
    /\ race["refresh"].pc = "returned" /\ race["refresh"].read = "fulfilled"
    /\ race["refresh"].write = Pending
    /\ lastWriter = "mount" /\ now > parse(lastWrite).timestamp.v
    /\ race["refresh"].out = [data |-> parse(lastWrite).data, success |-> TRUE]
    /\ Length(race["refresh"].out.data.v) = 1

----------------------------------------------------------------------------
(* Claims about the useStocks hook (SpecHook) *)

InFlight(l) == inflight[l] = "awaiting"

\* C30 (as claimed): `loading` is true exactly while at least one
\* loadScreenedStocks call is in flight.
C30_LoadingWhileInFlight ==
    loading <=> \E l \in StocksLoads : InFlight(l)

====
